---- MODULE Spec2Model ----
(***************************************************************************)
(* automatic-control/src/main.rs: the lock-step waypoint-following loop of *)
(* the CARLA example client, with the asynchronous Ctrl-C handler that     *)
(* raises the stop flag.                                                   *)
(*                                                                         *)
(* Units.  Angles are whole degrees.  f32 quantities that are compared or  *)
(* divided are kept in thousandths (1.0 is 1000); the quotient of the      *)
(* steering ratio is an IEEE value: finite, an infinity, or NaN.           *)
(* An Option<T> is a sequence of length 0 (None) or 1 (Some).              *)
(***************************************************************************)
EXTENDS Integers, Sequences, FiniteSets, TLC

(* ------------------------------ bounds -------------------------------- *)
\* loop iterations entered in one run
MaxIter == 3
\* Ctrl-C signals delivered in one run
MaxSignals == 2
\* wheels reported by physics_control()
MaxWheels == 2
\* successors returned by Waypoint::next
MaxSucc == 2

(* -------------------------- program constants ------------------------- *)
\* fixed_delta_seconds: Some(0.05), in thousandths of a second
FixedDelta == 50
\* curr_waypoint.next(1.0), in thousandths
Lookahead == 1000
\* heading_offset.abs() < 3.0, in degrees
Deadband == 3
\* steer_speed 0.1, in thousandths
RateStep == 100
\* vehicle_speed < 5.0, in thousandths of m/s
SpeedThreshold == 5000

\* start_point: translation (83.075226, 13.414804), yaw -179.84079 degrees
start_point == [loc |-> <<83, 13>>, yaw |-> -180]

(* ------------------------- environment inputs ------------------------- *)
\* yaw of vehicle.transform(), degrees (euler_angles yields [-180, 180])
Yaws == {-180, -90, -3, -2, 0, 2, 3, 90, 180}
\* positions the vehicle is observed at
Locs == {<<0, 0>>, <<83, 13>>}
\* displacement of a successor waypoint from the vehicle
Offsets == {<<0, 0>>, <<1, 0>>, <<0, 1>>, <<-1, 0>>, <<0, -1>>}
\* max_steer_angle of a wheel, degrees
WheelAngles == {0, 35, 70}
\* |velocity|, thousandths of m/s
Speeds == {0, 4999, 5000, 20000}
\* --target-speed, km/h
TargetSpeeds == {5, 36}

None == <<>>
Some(x) == <<x>>
IsSome(o) == Len(o) = 1
Unwrap(o) == o[1]

\* sequences over S of length at most n
SeqsUpTo(S, n) == UNION {[1..k -> S] : k \in 0..n}

(* ------------------------------ f32 ----------------------------------- *)
Fin(v) == [k |-> "fin", v |-> v]
NaN == [k |-> "nan", v |-> 0]
Inf(s) == [k |-> "inf", v |-> s]

Abs(x) == IF x < 0 THEN 0 - x ELSE x
Sign(x) == IF x < 0 THEN 0 - 1 ELSE IF x > 0 THEN 1 ELSE 0
\* division truncated towards zero
TruncDiv(a, b) == Sign(a) * Sign(b) * (Abs(a) \div Abs(b))

\* a / b for finite a, b given in the same unit; the quotient in thousandths
FDiv(a, b) ==
    IF b = 0
    THEN IF a = 0 THEN NaN ELSE Inf(Sign(a))
    ELSE Fin(TruncDiv(a * 1000, b))

\* a < b on f32: false whenever an operand is NaN
FLt(a, b) ==
    /\ a.k # "nan"
    /\ b.k # "nan"
    /\ CASE a.k = "inf" /\ b.k = "inf" -> a.v < b.v
         [] a.k = "inf" -> a.v < 0
         [] b.k = "inf" -> b.v > 0
         [] OTHER -> a.v < b.v

\* f32::clamp: x < min gives min, x > max gives max, NaN stays NaN
FClamp(x, lo, hi) ==
    LET x1 == IF FLt(x, lo) THEN lo ELSE x
    IN  IF FLt(hi, x1) THEN hi ELSE x1

\* atan2(y, x) in degrees on the unit offsets; atan2(0, 0) = 0
Atan2Deg(y, x) ==
    CASE x > 0 /\ y = 0 -> 0
      [] x > 0 /\ y > 0 -> 45
      [] x = 0 /\ y > 0 -> 90
      [] x < 0 /\ y > 0 -> 135
      [] x < 0 /\ y = 0 -> 180
      [] x < 0 /\ y < 0 -> 0 - 135
      [] x = 0 /\ y < 0 -> 0 - 90
      [] x > 0 /\ y < 0 -> 0 - 45
      [] OTHER -> 0

\* NormalizeOffset without the correction by one turn
NormalizeOffsetNone(offset) == offset

\* lines 107-115: wrap the yaw difference by one turn
NormalizeOffset(offset) ==
    IF offset >= 180 THEN offset - 360
    ELSE IF offset <= 0 - 180 THEN offset + 360
    ELSE offset

\* HeadingOffset with the subtraction reversed (current_yaw - target_yaw)
HeadingOffsetReversed(current_yaw, dir) ==
    NormalizeOffset(current_yaw - Atan2Deg(dir[2], dir[1]))

\* lines 102-117
HeadingOffset(current_yaw, dir) ==
    NormalizeOffset(Atan2Deg(dir[2], dir[1]) - current_yaw)

\* Iterator::max over the wheels' max_steer_angle
RECURSIVE MaxOpt(_)
MaxOpt(ws) ==
    IF ws = <<>> THEN None
    ELSE LET rest == MaxOpt(Tail(ws))
         IN  IF IsSome(rest) /\ Unwrap(rest) > Head(ws) THEN rest ELSE Some(Head(ws))

\* line 129
SteerRatio(heading_offset, max_steer_angle) ==
    FClamp(FDiv(heading_offset, max_steer_angle), Fin(0 - 1000), Fin(1000))

\* SteerSpeed whose deadband includes its boundary (<= 3.0)
SteerSpeedInclusive(heading_offset) ==
    IF Abs(heading_offset) <= Deadband THEN 0
    ELSE IF heading_offset > 0 THEN RateStep
    ELSE 0 - RateStep

\* lines 133-139
SteerSpeed(heading_offset) ==
    IF Abs(heading_offset) < Deadband THEN 0
    ELSE IF heading_offset > 0 THEN RateStep
    ELSE 0 - RateStep

\* Acceleration that still accelerates at the threshold (<= 5.0)
AccelerationInclusive(vehicle_speed) == IF vehicle_speed <= SpeedThreshold THEN 1000 ELSE 0

\* line 145
Acceleration(vehicle_speed) == IF vehicle_speed < SpeedThreshold THEN 1000 ELSE 0

\* CommandSpeed that passes target_speed through without the conversion
CommandSpeedRaw(target_speed) == target_speed * 1000

\* line 152: target_speed * 10.0 / 36.0, thousandths of m/s
CommandSpeed(target_speed) == TruncDiv(target_speed * 10 * 1000, 36)

Count(s, e) == Cardinality({i \in 1..Len(s) : s[i] = e})

(* ------------------------------ state --------------------------------- *)
VARIABLES
    pc,                \* position of main
    stop,              \* Arc<AtomicBool> written by the Ctrl-C handler
    settings,          \* EpisodeSettings of the world
    target_speed,      \* opts.target_speed
    vehicle_transform, \* locals of one loop iteration, each an Option
    curr_waypoint,
    successors,
    next_waypoint,
    s_point,
    heading_offset,
    max_steer_angle,
    steer,
    vehicle_speed,
    control,
    pose_request,      \* last transform requested for the vehicle
    frame,             \* simulation steps advanced by world.tick()
    diag,              \* panic message, if any
    iter,              \* loop iterations entered
    signals,           \* Ctrl-C signals handled
    calls,             \* calls made since the last read of the stop flag
    lookup,            \* outcome of this iteration's waypoint lookups
    cmdsAfterStop,     \* commands submitted while the flag was raised
    ticksAfterStop     \* steps advanced while the flag was raised

locals == <<vehicle_transform, curr_waypoint, successors, next_waypoint, s_point,
            heading_offset, max_steer_angle, steer, vehicle_speed, control>>
world == <<settings, pose_request, frame>>
history == <<iter, calls, lookup, cmdsAfterStop, ticksAfterStop>>
vars == <<pc, stop, signals, target_speed, diag, locals, world, history>>

Terminated == pc \in {"done", "err", "panicked"}

\* the locals go out of scope
DropLocals ==
    /\ vehicle_transform' = None
    /\ curr_waypoint' = None
    /\ successors' = None
    /\ next_waypoint' = None
    /\ s_point' = None
    /\ heading_offset' = None
    /\ max_steer_angle' = None
    /\ steer' = None
    /\ vehicle_speed' = None
    /\ control' = None

Init ==
    /\ pc = "start"
    /\ stop = FALSE
    /\ signals = 0
    /\ settings \in [synchronous_mode : BOOLEAN, fixed_delta_seconds : {None, Some(FixedDelta)}]
    /\ target_speed \in TargetSpeeds
    /\ vehicle_transform = None
    /\ curr_waypoint = None
    /\ successors = None
    /\ next_waypoint = None
    /\ s_point = None
    /\ heading_offset = None
    /\ max_steer_angle = None
    /\ steer = None
    /\ vehicle_speed = None
    /\ control = None
    /\ pose_request = None
    /\ frame = 0
    /\ diag = None
    /\ iter = 0
    /\ calls = <<>>
    /\ lookup = "none"
    /\ cmdsAfterStop = 0
    /\ ticksAfterStop = 0

(* --------------------------- before the loop -------------------------- *)
\* ApplySyncSettings that leaves fixed_delta_seconds as the server had it
ApplySyncSettingsNoDelta ==
    /\ pc = "start"
    /\ settings' = [settings EXCEPT !.synchronous_mode = TRUE]
    /\ pc' = "register"
    /\ UNCHANGED <<stop, signals, target_speed, diag, locals, pose_request, frame, history>>

\* lines 35-43
ApplySyncSettings ==
    /\ pc = "start"
    /\ settings' = [settings EXCEPT !.synchronous_mode = TRUE,
                                    !.fixed_delta_seconds = Some(FixedDelta)]
    /\ pc' = "register"
    /\ UNCHANGED <<stop, signals, target_speed, diag, locals, pose_request, frame, history>>

\* lines 56-64, set_handler returns Ok
RegisterHandler ==
    /\ pc = "register"
    /\ pc' = "spawn"
    /\ UNCHANGED <<stop, signals, target_speed, diag, locals, world, history>>

\* lines 60-63, set_handler returns Err and ? returns it from main
RegisterHandlerFails ==
    /\ pc = "register"
    /\ pc' = "err"
    /\ diag' = Some("Error setting Ctrl-C handler")
    /\ UNCHANGED <<stop, signals, target_speed, locals, world, history>>

\* lines 66-74, spawn_actor returns Ok
SpawnVehicle ==
    /\ pc = "spawn"
    /\ pc' = "loop"
    /\ UNCHANGED <<stop, signals, target_speed, diag, locals, world, history>>

\* line 71, spawn_actor returns Err and ? returns it from main
SpawnVehicleFails ==
    /\ pc = "spawn"
    /\ pc' = "err"
    /\ diag' = Some("spawn_actor")
    /\ UNCHANGED <<stop, signals, target_speed, locals, world, history>>

\* a handler that flips the flag (fetch_xor) instead of storing true
CtrlCToggle ==
    /\ pc \notin {"start", "register"}
    /\ ~Terminated
    /\ signals < MaxSignals
    /\ stop' = ~stop
    /\ signals' = signals + 1
    /\ UNCHANGED <<pc, target_speed, diag, locals, world, history>>

\* lines 60-62: the handler runs on its own thread whenever a signal arrives
CtrlC ==
    /\ pc \notin {"start", "register"}
    /\ ~Terminated
    /\ signals < MaxSignals
    /\ stop' = TRUE
    /\ signals' = signals + 1
    /\ UNCHANGED <<pc, target_speed, diag, locals, world, history>>

(* ------------------------------ the loop ------------------------------ *)
\* ResetPose that also steps the simulation before continuing
ResetPoseAndTick(outcome, made) ==
    /\ pose_request' = Some(start_point)
    /\ calls' = calls \o made \o <<"vehicle.set_transform", "world.tick">>
    /\ frame' = frame + 1
    /\ ticksAfterStop' = IF stop THEN ticksAfterStop + 1 ELSE ticksAfterStop
    /\ lookup' = outcome
    /\ pc' = "loop"
    /\ DropLocals
    /\ UNCHANGED <<stop, signals, target_speed, diag, settings, iter, cmdsAfterStop>>

\* ResetPose that leaves the loop (break) instead of continuing
ResetPoseBreak(outcome, made) ==
    /\ pose_request' = Some(start_point)
    /\ calls' = calls \o made \o <<"vehicle.set_transform">>
    /\ lookup' = outcome
    /\ pc' = "restore"
    /\ DropLocals
    /\ UNCHANGED <<stop, signals, target_speed, diag, settings, frame, iter,
                   cmdsAfterStop, ticksAfterStop>>

\* vehicle.set_transform(&start_point); continue  (lines 82-83, 88-89)
ResetPose(outcome, made) ==
    /\ pose_request' = Some(start_point)
    /\ calls' = calls \o made \o <<"vehicle.set_transform">>
    /\ lookup' = outcome
    /\ pc' = "loop"
    /\ DropLocals
    /\ UNCHANGED <<stop, signals, target_speed, diag, settings, frame, iter,
                   cmdsAfterStop, ticksAfterStop>>

\* LoopCheck that never consults the flag again (a value cached before the loop)
LoopCheckCached ==
    /\ pc = "loop"
    /\ iter < MaxIter
    /\ calls' = <<>>
    /\ lookup' = "none"
    /\ pc' = "pose"
    /\ iter' = iter + 1
    /\ UNCHANGED <<stop, signals, target_speed, diag, locals, world,
                   cmdsAfterStop, ticksAfterStop>>

\* line 76: while !stop.load(Ordering::SeqCst)
LoopCheck ==
    /\ pc = "loop"
    /\ calls' = <<"stop.load">>
    /\ lookup' = "none"
    /\ IF stop
       THEN /\ pc' = "restore"
            /\ iter' = iter
       ELSE /\ iter < MaxIter
            /\ pc' = "pose"
            /\ iter' = iter + 1
    /\ UNCHANGED <<stop, signals, target_speed, diag, locals, world,
                   cmdsAfterStop, ticksAfterStop>>

\* ReadPose that places the spectator as soon as the pose is read
ReadPoseWithSpectator ==
    /\ pc = "pose"
    /\ \E loc \in Locs, yaw \in Yaws :
          /\ vehicle_transform' = Some([loc |-> loc, yaw |-> yaw])
          /\ s_point' = Some([base |-> [loc |-> loc, yaw |-> yaw], shift |-> <<0 - 10, 0, 7>>])
    /\ calls' = calls \o <<"vehicle.transform", "spectator.set_transform">>
    /\ pc' = "waypoint"
    /\ UNCHANGED <<stop, signals, target_speed, diag, world, iter, lookup,
                   cmdsAfterStop, ticksAfterStop, curr_waypoint, successors,
                   next_waypoint, heading_offset, max_steer_angle, steer,
                   vehicle_speed, control>>

\* lines 78-79
ReadPose ==
    /\ pc = "pose"
    /\ \E loc \in Locs, yaw \in Yaws :
          vehicle_transform' = Some([loc |-> loc, yaw |-> yaw])
    /\ calls' = Append(calls, "vehicle.transform")
    /\ pc' = "waypoint"
    /\ UNCHANGED <<stop, signals, target_speed, diag, world, iter, lookup,
                   cmdsAfterStop, ticksAfterStop, curr_waypoint, successors,
                   next_waypoint, s_point, heading_offset, max_steer_angle, steer,
                   vehicle_speed, control>>

\* NearestWaypoint whose None branch continues without resetting the pose
NearestWaypointNoReset ==
    /\ pc = "waypoint"
    /\ \/ /\ curr_waypoint' = Some(Unwrap(vehicle_transform).loc)
          /\ calls' = Append(calls, "map.waypoint")
          /\ pc' = "next"
          /\ UNCHANGED <<stop, signals, target_speed, diag, world, iter, lookup,
                         cmdsAfterStop, ticksAfterStop, vehicle_transform, successors,
                         next_waypoint, s_point, heading_offset, max_steer_angle,
                         steer, vehicle_speed, control>>
       \/ /\ calls' = Append(calls, "map.waypoint")
          /\ lookup' = "no_waypoint"
          /\ pc' = "loop"
          /\ DropLocals
          /\ UNCHANGED <<stop, signals, target_speed, diag, world, iter,
                         cmdsAfterStop, ticksAfterStop>>

\* lines 81-84: the map projects the location on a lane, or finds none
NearestWaypoint ==
    /\ pc = "waypoint"
    /\ \/ /\ curr_waypoint' = Some(Unwrap(vehicle_transform).loc)
          /\ calls' = Append(calls, "map.waypoint")
          /\ pc' = "next"
          /\ UNCHANGED <<stop, signals, target_speed, diag, world, iter, lookup,
                         cmdsAfterStop, ticksAfterStop, vehicle_transform, successors,
                         next_waypoint, s_point, heading_offset, max_steer_angle,
                         steer, vehicle_speed, control>>
       \/ ResetPose("no_waypoint", <<"map.waypoint">>)

\* NextWaypoint that, with no successor, steers at the current waypoint instead
NextWaypointFallsBack ==
    /\ pc = "next"
    /\ \E offs \in SeqsUpTo(Offsets, MaxSucc) :
          LET at == Unwrap(curr_waypoint)
              list == [i \in 1..Len(offs) |->
                          <<at[1] + offs[i][1], at[2] + offs[i][2]>>]
          IN  /\ successors' = Some(list)
              /\ next_waypoint' = IF list = <<>> THEN Some(at) ELSE Some(list[1])
              /\ calls' = Append(calls, "waypoint.next")
              /\ lookup' = IF list = <<>> THEN "no_successor" ELSE "found"
              /\ pc' = "spectator"
              /\ UNCHANGED <<stop, signals, target_speed, diag, world, iter,
                             cmdsAfterStop, ticksAfterStop, vehicle_transform,
                             curr_waypoint, s_point, heading_offset,
                             max_steer_angle, steer, vehicle_speed, control>>

\* NextWaypoint that takes the last successor instead of the first
NextWaypointLast ==
    /\ pc = "next"
    /\ \E offs \in SeqsUpTo(Offsets, MaxSucc) :
          LET at == Unwrap(curr_waypoint)
              list == [i \in 1..Len(offs) |->
                          <<at[1] + offs[i][1], at[2] + offs[i][2]>>]
          IN  IF list = <<>>
              THEN ResetPose("no_successor", <<"waypoint.next">>)
              ELSE /\ successors' = Some(list)
                   /\ next_waypoint' = Some(list[Len(list)])
                   /\ calls' = Append(calls, "waypoint.next")
                   /\ lookup' = "found"
                   /\ pc' = "spectator"
                   /\ UNCHANGED <<stop, signals, target_speed, diag, world, iter,
                                  cmdsAfterStop, ticksAfterStop, vehicle_transform,
                                  curr_waypoint, s_point, heading_offset,
                                  max_steer_angle, steer, vehicle_speed, control>>

\* lines 86-90: curr_waypoint.next(1.0).get(0)
NextWaypoint ==
    /\ pc = "next"
    /\ \E offs \in SeqsUpTo(Offsets, MaxSucc) :
          LET at == Unwrap(curr_waypoint)
              list == [i \in 1..Len(offs) |->
                          <<at[1] + offs[i][1], at[2] + offs[i][2]>>]
          IN  IF list = <<>>
              THEN ResetPose("no_successor", <<"waypoint.next">>)
              ELSE /\ successors' = Some(list)
                   /\ next_waypoint' = Some(list[1])
                   /\ calls' = Append(calls, "waypoint.next")
                   /\ lookup' = "found"
                   /\ pc' = "spectator"
                   /\ UNCHANGED <<stop, signals, target_speed, diag, world, iter,
                                  cmdsAfterStop, ticksAfterStop, vehicle_transform,
                                  curr_waypoint, s_point, heading_offset,
                                  max_steer_angle, steer, vehicle_speed, control>>

\* lines 92-94: the viewpoint 10 behind and 7 above the vehicle, in its frame
SetSpectator ==
    /\ pc = "spectator"
    /\ s_point' = Some([base |-> Unwrap(vehicle_transform), shift |-> <<0 - 10, 0, 7>>])
    /\ successors' = None
    /\ calls' = Append(calls, "spectator.set_transform")
    /\ pc' = "heading"
    /\ UNCHANGED <<stop, signals, target_speed, diag, world, iter, lookup,
                   cmdsAfterStop, ticksAfterStop, vehicle_transform, curr_waypoint,
                   next_waypoint, heading_offset, max_steer_angle, steer,
                   vehicle_speed, control>>

\* lines 96-117
ComputeHeading ==
    /\ pc = "heading"
    /\ LET vt == Unwrap(vehicle_transform)
           next_location == Unwrap(next_waypoint)
           dir == <<next_location[1] - vt.loc[1], next_location[2] - vt.loc[2]>>
       IN  heading_offset' = Some(HeadingOffset(vt.yaw, dir))
    /\ pc' = "physics"
    /\ UNCHANGED <<stop, signals, target_speed, diag, world, history,
                   vehicle_transform, curr_waypoint, successors, next_waypoint,
                   s_point, max_steer_angle, steer, vehicle_speed, control>>

\* lines 121-126: the largest max_steer_angle of the reported wheels
PhysicsControl ==
    /\ pc = "physics"
    /\ \E wheels \in SeqsUpTo(WheelAngles, MaxWheels) :
          max_steer_angle' = MaxOpt(wheels)
    /\ calls' = Append(calls, "vehicle.physics_control")
    /\ pc' = "steer"
    /\ UNCHANGED <<stop, signals, target_speed, diag, world, iter, lookup,
                   cmdsAfterStop, ticksAfterStop, vehicle_transform, curr_waypoint,
                   successors, next_waypoint, s_point, heading_offset, steer,
                   vehicle_speed, control>>

\* ComputeSteer that substitutes a default limit of 70 degrees (unwrap_or)
ComputeSteerDefault ==
    /\ pc = "steer"
    /\ pc' = "apply"
    /\ diag' = diag
    /\ steer' = Some(SteerRatio(Unwrap(heading_offset),
                                IF max_steer_angle = None THEN 70
                                ELSE Unwrap(max_steer_angle)))
    /\ UNCHANGED <<stop, signals, target_speed, world, history, vehicle_transform,
                   curr_waypoint, successors, next_waypoint, s_point, heading_offset,
                   max_steer_angle, vehicle_speed, control>>

\* lines 127-129: expect() panics on None, else the clamped ratio
ComputeSteer ==
    /\ pc = "steer"
    /\ IF max_steer_angle = None
       THEN /\ pc' = "panicked"
            /\ diag' = Some("Unable to obtain max steering angle from the vehicle")
            /\ steer' = steer
       ELSE /\ pc' = "apply"
            /\ diag' = diag
            /\ steer' = Some(SteerRatio(Unwrap(heading_offset), Unwrap(max_steer_angle)))
    /\ UNCHANGED <<stop, signals, target_speed, world, history, vehicle_transform,
                   curr_waypoint, successors, next_waypoint, s_point, heading_offset,
                   max_steer_angle, vehicle_speed, control>>

\* ApplyControl that stops accelerating once a pose reset has been requested
ApplyControlAfterReset ==
    /\ pc = "apply"
    /\ \E speed \in Speeds :
          /\ vehicle_speed' = Some(speed)
          /\ control' = Some([steer |-> Unwrap(steer),
                              steer_speed |-> SteerSpeed(Unwrap(heading_offset)),
                              speed |-> CommandSpeed(target_speed),
                              acceleration |-> IF pose_request = None
                                               THEN Acceleration(speed) ELSE 0,
                              jerk |-> 0])
    /\ calls' = calls \o <<"vehicle.velocity", "vehicle.apply_ackermann_control">>
    /\ cmdsAfterStop' = IF stop THEN cmdsAfterStop + 1 ELSE cmdsAfterStop
    /\ pc' = "tick"
    /\ UNCHANGED <<stop, signals, target_speed, diag, world, iter, lookup,
                   ticksAfterStop, vehicle_transform, curr_waypoint, successors,
                   next_waypoint, s_point, heading_offset, max_steer_angle, steer>>

\* lines 132-156
ApplyControl ==
    /\ pc = "apply"
    /\ \E speed \in Speeds :
          /\ vehicle_speed' = Some(speed)
          /\ control' = Some([steer |-> Unwrap(steer),
                              steer_speed |-> SteerSpeed(Unwrap(heading_offset)),
                              speed |-> CommandSpeed(target_speed),
                              acceleration |-> Acceleration(speed),
                              jerk |-> 0])
    /\ calls' = calls \o <<"vehicle.velocity", "vehicle.apply_ackermann_control">>
    /\ cmdsAfterStop' = IF stop THEN cmdsAfterStop + 1 ELSE cmdsAfterStop
    /\ pc' = "tick"
    /\ UNCHANGED <<stop, signals, target_speed, diag, world, iter, lookup,
                   ticksAfterStop, vehicle_transform, curr_waypoint, successors,
                   next_waypoint, s_point, heading_offset, max_steer_angle, steer>>

\* line 158, then the iteration's locals are dropped
Tick ==
    /\ pc = "tick"
    /\ frame' = frame + 1
    /\ calls' = Append(calls, "world.tick")
    /\ ticksAfterStop' = IF stop THEN ticksAfterStop + 1 ELSE ticksAfterStop
    /\ pc' = "loop"
    /\ DropLocals
    /\ UNCHANGED <<stop, signals, target_speed, diag, settings, pose_request, iter,
                   lookup, cmdsAfterStop>>

(* --------------------------- after the loop --------------------------- *)
\* RestoreSettings that repeats the settings of lines 36-43
RestoreSettingsSync ==
    /\ pc = "restore"
    /\ settings' = [settings EXCEPT !.synchronous_mode = TRUE,
                                    !.fixed_delta_seconds = Some(FixedDelta)]
    /\ pc' = "return"
    /\ UNCHANGED <<stop, signals, target_speed, diag, locals, pose_request, frame, history>>

\* lines 161-169
RestoreSettings ==
    /\ pc = "restore"
    /\ settings' = [settings EXCEPT !.synchronous_mode = FALSE,
                                    !.fixed_delta_seconds = None]
    /\ pc' = "return"
    /\ UNCHANGED <<stop, signals, target_speed, diag, locals, pose_request, frame, history>>

\* line 171
ReturnOk ==
    /\ pc = "return"
    /\ pc' = "done"
    /\ UNCHANGED <<stop, signals, target_speed, diag, locals, world, history>>

\* the steps of the main thread
Main ==
    \/ ApplySyncSettings
    \/ RegisterHandler
    \/ RegisterHandlerFails
    \/ SpawnVehicle
    \/ SpawnVehicleFails
    \/ LoopCheck
    \/ ReadPose
    \/ NearestWaypoint
    \/ NextWaypoint
    \/ SetSpectator
    \/ ComputeHeading
    \/ PhysicsControl
    \/ ComputeSteer
    \/ ApplyControl
    \/ Tick
    \/ RestoreSettings
    \/ ReturnOk

Next == Main \/ CtrlC

Spec == Init /\ [][Next]_vars

\* the main thread keeps running until main returns or panics
FairSpec == Spec /\ WF_vars(Main)

(* ------------------------------ claims -------------------------------- *)
Submits == Count(calls, "vehicle.apply_ackermann_control")
Resets == Count(calls, "vehicle.set_transform")
Steps == Count(calls, "world.tick")
\* the iteration that `calls` records is over
IterationOver == iter > 0 /\ pc \in {"loop", "panicked"}
FreeRunning ==
    /\ settings.synchronous_mode = FALSE
    /\ settings.fixed_delta_seconds = None

\* C1: every world.tick of the loop is preceded, in its own iteration, by
\* exactly one apply_ackermann_control, and no iteration submits more than one
\* command.
C1_OneCommandPerTick ==
    /\ Submits <= 1
    /\ Steps <= 1
    /\ \A i \in 1..Len(calls) :
          calls[i] = "world.tick" =>
             Count(SubSeq(calls, 1, i - 1), "vehicle.apply_ackermann_control") = 1

C1_Witness == pc = "loop" /\ iter = 2 /\ frame = 2 /\ Steps = 1 /\ Submits = 1

\* C2: an iteration in which map.waypoint finds no waypoint requests exactly
\* one reset to start_point and submits no command.
C2_NoWaypointResets ==
    lookup = "no_waypoint" =>
       /\ Resets = 1
       /\ Submits = 0
       /\ pose_request = Some(start_point)
       /\ control = None

C2_Witness == lookup = "no_waypoint" /\ pc = "loop" /\ Resets = 1

\* C3: an iteration in which a waypoint is found but next(1.0) is empty
\* requests exactly one reset to start_point and submits no command.
C3_NoSuccessorResets ==
    lookup = "no_successor" =>
       /\ Resets = 1
       /\ Submits = 0
       /\ pose_request = Some(start_point)
       /\ control = None
       /\ Count(calls, "map.waypoint") = 1

C3_Witness == lookup = "no_successor" /\ pc = "loop" /\ Resets = 1

\* C4: every iteration entered while running advances the simulation by
\* exactly one step, the iterations that reset the pose included.
C4_EveryIterationTicks ==
    (pc = "loop" /\ iter > 0) => Steps = 1

C6_CancelWithinOneTick ==
    /\ [](cmdsAfterStop <= 1 /\ ticksAfterStop <= 1)
    /\ [][(stop' # stop) => (pc' = pc /\ calls' = calls /\ locals' = locals)]_vars
    /\ [][(stop /\ pc = "loop" /\ pc' # pc) => pc' = "restore"]_vars

C6_Witness == pc = "done" /\ cmdsAfterStop = 1 /\ ticksAfterStop = 1

\* C7: the flag starts false, only the Ctrl-C handler writes it, once true it
\* stays true under repeated signals, and the loop reads it exactly once per
\* iteration, as the first thing it does.
C7_FlagOnlyRaisedBySignal ==
    /\ stop = FALSE
    /\ [][stop => stop']_vars
    /\ [][(stop' # stop) => (signals' = signals + 1 /\ pc' = pc)]_vars
    /\ [](pc \in {"start", "register"} => ~stop)
    /\ []((iter > 0 /\ pc # "loop") => (Count(calls, "stop.load") = 1 /\ calls[1] = "stop.load"))
    /\ []((iter > 0 /\ pc = "loop") => Count(calls, "stop.load") = 1)

C7_Witness == stop /\ signals = 2 /\ pc = "done" /\ iter > 0

\* C8: when no steering limit is obtained the program panics with its
\* diagnostic; no limit is substituted, no command is submitted and no step is
\* advanced in that iteration or afterwards.
C8_MissingLimitAborts ==
    /\ [](pc = "panicked" =>
             /\ max_steer_angle = None
             /\ steer = None
             /\ control = None
             /\ Submits = 0
             /\ Steps = 0
             /\ diag = Some("Unable to obtain max steering angle from the vehicle"))
    /\ [](pc \in {"apply", "tick"} => max_steer_angle # None)
    /\ [][(pc = "steer" /\ max_steer_angle = None /\ pc' # pc) => pc' = "panicked"]_vars
    /\ [][pc = "panicked" => (pc' = pc /\ frame' = frame /\ calls' = calls)]_vars

C8_Witness == pc = "panicked" /\ frame >= 1 /\ Submits = 0

C10_SteerInBounds ==
    control # None =>
       /\ Unwrap(control).steer.k = "fin"
       /\ Unwrap(control).steer.v >= 0 - 1000
       /\ Unwrap(control).steer.v <= 1000

\* the displacement and the raw yaw difference of the iteration in progress
Dir ==
    LET vt == Unwrap(vehicle_transform)
        next_location == Unwrap(next_waypoint)
    IN  <<next_location[1] - vt.loc[1], next_location[2] - vt.loc[2]>>
RawOffset == Atan2Deg(Dir[2], Dir[1]) - Unwrap(vehicle_transform).yaw

\* C11 (as stated): the normalized heading error lies in the half-open
\* interval (-180, 180] degrees; a raw difference of +180 or of -180 both give
\* +180, never -180.
C11_HalfOpenInterval ==
    heading_offset # None =>
       /\ Unwrap(heading_offset) > 0 - 180
       /\ Unwrap(heading_offset) <= 180
       /\ (RawOffset \in {180, 0 - 180} => Unwrap(heading_offset) = 180)

\* C11 (amended): the normalized heading error lies in the closed interval
\* [-180, 180] degrees and differs from the raw difference by a single turn or
\* not at all; a raw difference of exactly +180 gives -180 and one of exactly
\* -180 gives +180.
C11_ClosedInterval ==
    heading_offset # None =>
       /\ Unwrap(heading_offset) >= 0 - 180
       /\ Unwrap(heading_offset) <= 180
       /\ Unwrap(heading_offset) \in {RawOffset, RawOffset - 360, RawOffset + 360}
       /\ (Abs(RawOffset) < 180 => Unwrap(heading_offset) = RawOffset)
       /\ (RawOffset = 180 => Unwrap(heading_offset) = 0 - 180)
       /\ (RawOffset = 0 - 180 => Unwrap(heading_offset) = 180)

C11_Witness == heading_offset = Some(0 - 180) /\ RawOffset = 180

\* C12: the steer_speed of a submitted command is 0 when |heading error| < 3
\* degrees, +0.1 when the error is >= 3 and -0.1 when it is <= -3.
C12_DeadbandBangBang ==
    control # None =>
       LET h == Unwrap(heading_offset)
           ss == Unwrap(control).steer_speed
       IN  /\ ss \in {0 - 100, 0, 100}
           /\ (h > 0 - 3 /\ h < 3) => ss = 0
           /\ h >= 3 => ss = 100
           /\ h <= 0 - 3 => ss = 0 - 100

C12_Witness ==
    /\ control # None
    /\ heading_offset = Some(3)
    /\ Unwrap(control).steer_speed = 100

\* C13: the acceleration of a submitted command is 1 when the measured speed
\* is below 5.0 and 0 otherwise, 5.0 itself included.
C13_AccelerationGate ==
    control # None =>
       LET v == Unwrap(vehicle_speed)
           a == Unwrap(control).acceleration
       IN  /\ v >= 0
           /\ a \in {0, 1000}
           /\ (v < 5000 => a = 1000)
           /\ (v >= 5000 => a = 0)

C13_Witness ==
    /\ control # None
    /\ vehicle_speed = Some(5000)
    /\ Unwrap(control).acceleration = 0

\* C14 (as stated): the speed of every submitted command equals the configured
\* target_speed unmodified.
C14_SpeedPassesThrough ==
    control # None => Unwrap(control).speed = target_speed * 1000

\* C14 (amended): the speed of every submitted command is the configured
\* target_speed multiplied by 10/36 (km/h to m/s), for every configured
\* target_speed, and target_speed never changes during a run.
C14_SpeedConverted ==
    /\ [](control # None =>
             /\ 36 * Unwrap(control).speed <= target_speed * 10000
             /\ target_speed * 10000 < 36 * (Unwrap(control).speed + 1))
    /\ [][target_speed' = target_speed]_vars

C14_Witness ==
    /\ control # None
    /\ iter >= 2
    /\ target_speed = 36
    /\ Unwrap(control).speed = 10000

\* C15: whenever next(1.0) is not empty the target is its first element,
\* however many successors there are and whatever earlier iterations chose.
C15_FirstSuccessor ==
    successors # None =>
       /\ Unwrap(successors) # <<>>
       /\ next_waypoint = Some(Unwrap(successors)[1])

C15_Witness ==
    /\ successors # None
    /\ iter >= 2
    /\ Len(Unwrap(successors)) = 2
    /\ Unwrap(successors)[1] # Unwrap(successors)[2]
    /\ next_waypoint = Some(Unwrap(successors)[1])

\* the positions of main inside the while loop
InLoop ==
    pc \in {"loop", "pose", "waypoint", "next", "spectator", "heading", "physics",
            "steer", "apply", "tick"}
LockStep ==
    /\ settings.synchronous_mode = TRUE
    /\ settings.fixed_delta_seconds = Some(50)

\* C16: the world is synchronous with fixed step 0.05 s whenever main is in
\* the loop; the settings are written only before the loop and after it; the
\* simulation advances only by the loop's world.tick, one step at a time.
C16_LockStepWhileRunning ==
    /\ [](InLoop => LockStep)
    /\ [][(settings' # settings) => (pc \in {"start", "restore"})]_vars
    /\ [][(pc = "restore" /\ pc' # pc) => (stop /\ ~LockStep')]_vars
    /\ [][(frame' # frame) => (pc = "tick" /\ frame' = frame + 1 /\ LockStep)]_vars

C16_Witness == pc = "tick" /\ frame = 1 /\ LockStep /\ pose_request = Some(start_point)

\* the command the code builds from the inputs of the iteration in progress
CommandOf(pose, target, speed, limit, cfg_speed) ==
    LET dir == <<target[1] - pose.loc[1], target[2] - pose.loc[2]>>
        h == HeadingOffset(pose.yaw, dir)
    IN  [steer |-> SteerRatio(h, limit),
         steer_speed |-> SteerSpeed(h),
         speed |-> CommandSpeed(cfg_speed),
         acceleration |-> Acceleration(speed),
         jerk |-> 0]

\* C17: the submitted command is a function of this iteration's pose,
\* selected waypoint, measured speed, reported steering limit and the
\* configured target_speed only; nothing of earlier iterations (resets, steps,
\* signals) enters it.
C17_CommandFromThisTickOnly ==
    control # None =>
       Unwrap(control) = CommandOf(Unwrap(vehicle_transform), Unwrap(next_waypoint),
                                   Unwrap(vehicle_speed), Unwrap(max_steer_angle),
                                   target_speed)

C17_Witness ==
    /\ control # None
    /\ iter = 3
    /\ frame = 1
    /\ pose_request = Some(start_point)
    /\ stop

\* C18: with current yaw 90 degrees and the successor one unit east, the
\* heading error is -90 degrees, steer_speed is -0.1, steer is negative and at
\* the bound -1 for a steering limit of at most 90 degrees, and acceleration
\* is 1 exactly when the measured speed is below 5.0.
C18_NorthFacingTargetEast ==
    (control # None /\ Unwrap(vehicle_transform).yaw = 90 /\ Dir = <<1, 0>>) =>
       /\ heading_offset = Some(0 - 90)
       /\ Unwrap(control).steer_speed = 0 - 100
       /\ Unwrap(control).steer.k = "fin"
       /\ Unwrap(control).steer.v < 0
       /\ (Unwrap(max_steer_angle) <= 90 => Unwrap(control).steer.v = 0 - 1000)
       /\ (Unwrap(control).acceleration = 1000 <=> Unwrap(vehicle_speed) < 5000)

C18_Witness ==
    /\ control # None
    /\ Unwrap(vehicle_transform).yaw = 90
    /\ Dir = <<1, 0>>
    /\ vehicle_speed = Some(4999)
    /\ Unwrap(control).acceleration = 1000

IsPrefix(a, b) == Len(a) <= Len(b) /\ a = SubSeq(b, 1, Len(a))
\* index of the first e in s, 0 if there is none
First(s, e) ==
    IF \E i \in 1..Len(s) : s[i] = e
    THEN CHOOSE i \in 1..Len(s) : s[i] = e /\ \A j \in 1..(i - 1) : s[j] # e
    ELSE 0
\* the calls of an iteration that submits a command, in the order of the code
FullTick ==
    <<"stop.load", "vehicle.transform", "map.waypoint", "waypoint.next",
      "spectator.set_transform", "vehicle.physics_control", "vehicle.velocity",
      "vehicle.apply_ackermann_control", "world.tick">>

\* C19 (as stated): the spectator is placed in every iteration, the resetting
\* ones included, and before the waypoint lookups.
C19_SpectatorBeforeLookup ==
    Count(calls, "map.waypoint") = 1 =>
       /\ Count(calls, "spectator.set_transform") = 1
       /\ First(calls, "spectator.set_transform") < First(calls, "map.waypoint")

\* C19 (amended): the spectator is placed relative to the pose read in the
\* same iteration, after the waypoint lookups and only when both succeed, so
\* an iteration that ends in a pose reset does not update it; an iteration
\* that submits a command makes its calls in the order pose read, waypoint
\* resolution, spectator placement, command submission, step advance.
C19_SpectatorAfterLookup ==
    /\ (lookup \in {"no_waypoint", "no_successor"} =>
           Count(calls, "spectator.set_transform") = 0)
    /\ (Count(calls, "spectator.set_transform") = 1 =>
           /\ lookup = "found"
           /\ First(calls, "vehicle.transform") < First(calls, "map.waypoint")
           /\ First(calls, "map.waypoint") < First(calls, "waypoint.next")
           /\ First(calls, "waypoint.next") < First(calls, "spectator.set_transform"))
    /\ (s_point # None =>
           /\ Unwrap(s_point).base = Unwrap(vehicle_transform)
           /\ Count(calls, "spectator.set_transform") = 1)
    /\ Count(calls, "spectator.set_transform") <= 1
    /\ (Submits = 1 => IsPrefix(calls, FullTick))
    /\ ((pc = "loop" /\ Steps = 1) => calls = FullTick)

C19_Witness == pc = "loop" /\ calls = FullTick /\ iter = 2

\* C20: whenever the program has terminated after enabling synchronous mode,
\* the world settings are free-running again.
C20_RestoredOnEveryExit ==
    Terminated => FreeRunning

====
